---- MODULE Spec2Model ----
(***************************************************************************)
(* The indexing pipeline of bigbeard-templates: the directory-backed       *)
(* EmbeddingGenerator (scripts/generate_embeddings.py) and the             *)
(* registry-backed ExistingTemplateProcessor                               *)
(* (scripts/process_existing_templates.py), writing to one vectors bucket, *)
(* one index document and one metadata table.                              *)
(*                                                                         *)
(* Python dicts are functions on strings, lists are sequences, None is the *)
(* value None below, an Optional result is a sequence of length 0 or 1.    *)
(***************************************************************************)
EXTENDS Integers, Sequences, FiniteSets, TLC

(***************************** bounds ***************************************)
\* Command-line invocations started in one behaviour.
MaxRuns == 2
\* Embedding calls that raise in one run.
MaxEmbedFailures == 1
\* Store calls (put_object, get_object, put_item) that raise in one behaviour.
MaxStoreFaults == 1

(************************ program constants *********************************)
EMBEDDING_MODEL_ID == "amazon.titan-embed-text-v2:0"
EMBEDDING_DIMENSION == 1024
MAX_INPUT_TOKENS == 8192
FIGMA_ASSETS_BUCKET == "site-builder-dev-design-assets-536580886816"
MIGRATED_SITES_BUCKET == "bigbeard-migrated-site-dev"
INDEX_KEY == "template-embeddings/index.json"

\* generate_embeddings.VALID_INDUSTRIES, in its iteration order.
VALID_INDUSTRIES ==
    << "restaurant", "healthcare", "technology", "ecommerce", "real_estate",
       "professional_services", "creative_agency", "education", "nonprofit",
       "fitness", "hospitality", "finance", "retail", "automotive",
       "beauty_spa", "other" >>

\* validate_template.VALID_INDUSTRIES.
VALIDATOR_INDUSTRIES ==
    { "restaurant", "healthcare", "technology", "ecommerce", "real_estate",
      "professional_services", "creative_agency", "education", "nonprofit",
      "fitness", "hospitality", "finance", "retail", "automotive",
      "beauty_spa", "manufacturing", "energy", "marketing", "other" }

(***************************** Python values ********************************)
None == "<None>"
EmptyDict == [x \in {} |-> None]

\* dict.get(k, default)
Get(d, k, default) == IF k \in DOMAIN d THEN d[k] ELSE default

\* d[k] = v
Set(d, k, v) == (k :> v) @@ d

\* f"{v}" of a string or None
PyStr(v) == IF v = None THEN "None" ELSE v

RECURSIVE Join(_, _)
\* sep.join(parts)
Join(parts, sep) ==
    IF Len(parts) = 0 THEN ""
    ELSE IF Len(parts) = 1 THEN parts[1]
    ELSE parts[1] \o sep \o Join(Tail(parts), sep)

\* seq[:n]
Prefix(seq, n) == SubSeq(seq, 1, IF Len(seq) < n THEN Len(seq) ELSE n)

Range(seq) == { seq[k] : k \in 1..Len(seq) }

RECURSIVE Concat(_)
\* the concatenation of a sequence of sequences
Concat(ss) == IF Len(ss) = 0 THEN << >> ELSE Head(ss) \o Concat(Tail(ss))

(************************** the template sources ****************************)
\* str repeated 2^n times
RECURSIVE Doubled(_, _)
Doubled(str, n) == IF n = 0 THEN str ELSE Doubled(str \o str, n - 1)

\* A description of 32768 characters: with it the text of a template is
\* longer than generate_embedding submits.
LongDescription == Doubled("Rockets.", 12)

\* The directory tree under base_path: category/slug/metadata.json.  file is
\* "ok" (parses), "malformed" (json.load raises) or "absent".
TREE ==
    << [parent |-> "technology", name |-> "index", is_dir |-> TRUE, file |-> "ok",
        metadata |-> [template_id |-> "index", name |-> "Index Page",
                      cta_intent |-> "signup", design_style |-> "minimal",
                      sections |-> <<"hero", "features", "pricing", "faq">>,
                      description |-> "Landing page."]],
       [parent |-> "technology", name |-> ".cache", is_dir |-> TRUE, file |-> "ok",
        metadata |-> [template_id |-> "cache", name |-> "Cache",
                      industry |-> "technology"]],
       [parent |-> "technology", name |-> "README.md", is_dir |-> FALSE,
        file |-> "absent", metadata |-> EmptyDict],
       [parent |-> "finance", name |-> "a", is_dir |-> TRUE, file |-> "ok",
        metadata |-> [template_id |-> "a", name |-> "Alpha",
                      industry |-> "finance", cta_intent |-> "contact",
                      design_style |-> "modern",
                      sections |-> <<"hero", "about", "contact">>,
                      keywords |-> <<"bank", "loans">>,
                      color_palette |-> [primary |-> "#003366"],
                      description |-> "A bank site.",
                      created_at |-> "2024-01-01T00:00:00Z"]],
       [parent |-> "finance", name |-> "empty", is_dir |-> TRUE, file |-> "absent",
        metadata |-> EmptyDict],
       [parent |-> "finance", name |-> "b", is_dir |-> TRUE, file |-> "malformed",
        metadata |-> EmptyDict],
       [parent |-> "finance", name |-> "c", is_dir |-> TRUE, file |-> "ok",
        metadata |-> [name |-> "Gamma", industry |-> "spaceflight",
                      description |-> LongDescription]],
       [parent |-> "manufacturing", name |-> "m", is_dir |-> TRUE, file |-> "ok",
        metadata |-> [template_id |-> "m", name |-> "Mill",
                      industry |-> "manufacturing"]] >>

\* The values --template takes: the paths of the tree that can be processed,
\* one that lacks its metadata document and one that does not exist.
TemplateArgs ==
    { <<"finance", "a">>, <<"finance", "b">>, <<"finance", "c">>,
      <<"technology", "index">>, <<"finance", "empty">>, <<"finance", "nope">> }

\* templates/template-registry.json.  The first entry has no template_id and
\* the last has the template_id of a migrated site.
REGISTRY ==
    [ total_templates |-> 3,
      templates |->
        << [name |-> "Retail One", industry |-> "retail",
            cta_intent |-> "purchase", design_style |-> "bold",
            pages_count |-> 5, s3_key |-> "templates/r/"],
           [template_id |-> "a", name |-> "Alpha Figma", industry |-> "finance",
            s3_key |-> "templates/a/"],
           [template_id |-> "migrated-m-site", name |-> "M Site Redesign",
            industry |-> "hospitality", s3_key |-> "templates/m-site/"] >>,
      migrated_sites_highlights |-> << [slug |-> "h", industry |-> "education"] >> ]

\* templates/migrated-sites-catalog.json
CATALOG ==
    [ sites |-> << [site_slug |-> "m-site", industry |-> "hospitality",
                    pages |-> 3, features |-> <<"blog", "gallery">>] >> ]

(******************************* the state **********************************)
VARIABLES
    clock,      \* the wall clock datetime.utcnow() reads
    provider,   \* the shape of the model endpoint's answers
    s3,         \* the vectors bucket: key -> JSON document
    ddb,        \* the templates table: <<PK, SK>> -> item
    localDir,   \* the --output-dir of --local runs: file name -> JSON document
    pc,         \* where each invocation is
    kind,       \* which script each invocation runs
    args,       \* its command-line arguments
    embeddings, \* its list of results
    i,          \* its position in the loop over embeddings
    existing_index, \* _update_vectors_index's fetched document
    log,        \* what it has logged and printed
    before,     \* the stores as they were when it started
    last,       \* the invocation that completed last
    nruns,      \* invocations started
    nfaults     \* store calls that raised

vars == << clock, provider, s3, ddb, localDir, pc, kind, args, embeddings, i,
           existing_index, log, before, last, nruns, nfaults >>

\* The invocations that can be running at once.
Procs == {1, 2}

REGION == "eu-west-1"
ENVIRONMENT == "dev"
TEMPLATES_BUCKET == "bbws-templates-" \o ENVIRONMENT

\* datetime.utcnow().isoformat() + "Z"
UtcNow == ToString(clock) \o "Z"

(************************ Embedding Provider Adapter ************************)
\* What the model endpoint answers when it does not raise: a body whose
\* 'embedding' has the requested length, a shorter one, or no 'embedding'.
ResponseShapes == {"full", "short", "nofield"}

\* What a vector keeps of the text it embeds: the number of characters
\* submitted and the first and last forty of them.
TextOf(text) ==
    [len |-> Len(text),
     head |-> SubSeq(text, 1, IF Len(text) < 40 THEN Len(text) ELSE 40),
     tail |-> SubSeq(text, IF Len(text) < 40 THEN 1 ELSE Len(text) - 39, Len(text))]

\* A vector is kept as its length and the text it embeds, not as 1024 floats.
EmptyList == [dim |-> 0, of |-> TextOf("")]

ResponseBody(shape, text) ==
    IF shape = "full"
    THEN [embedding |-> [dim |-> EMBEDDING_DIMENSION, of |-> TextOf(text)]]
    ELSE IF shape = "short"
    THEN [embedding |-> [dim |-> EMBEDDING_DIMENSION \div 2, of |-> TextOf(text)]]
    ELSE [inputTextTokenCount |-> Len(text)]

\* A generate_embedding that submits the text whatever its length.
TruncateNever(text) == text

\* The text submitted to the model: truncated to MAX_INPUT_TOKENS * 4 characters.
Truncate(text) ==
    IF Len(text) > MAX_INPUT_TOKENS * 4 THEN Prefix(text, MAX_INPUT_TOKENS * 4) ELSE text

\* generate_embedding of both classes, for a call that does not raise: the
\* vector of the response, whatever its length (the directory-backed class
\* logs a warning on a mismatch and returns it all the same).
GenerateEmbedding(text, shape) ==
    Get(ResponseBody(shape, Truncate(text)), "embedding", EmptyList)

(************************** Embedding Text Builder **************************)
\* EmbeddingGenerator.build_embedding_text
BuildEmbeddingText(metadata) ==
    LET sections == Get(metadata, "sections", << >>)
        color_palette == Get(metadata, "color_palette", EmptyDict)
        keywords == Get(metadata, "keywords", << >>)
        description == Get(metadata, "description", "")
        industry == Get(metadata, "industry", "general")
        cta_intent == Get(metadata, "cta_intent", "contact")
        design_style == Get(metadata, "design_style", "modern")
        sections_preview ==
            IF Len(sections) > 0 THEN Join(Prefix(sections, 3), ", ") ELSE "standard"
        semantic_summary ==
            "\n        This is a " \o design_style \o " website template for the "
            \o industry \o " industry,\n        optimized for " \o cta_intent
            \o " conversions with sections including " \o sections_preview
            \o ".\n        "
        parts ==
            << "Industry: " \o industry,
               "CTA Intent: " \o cta_intent,
               "Design Style: " \o design_style >>
            \o (IF Len(sections) > 0
                THEN << "Sections: " \o Join(sections, ", ") >> ELSE << >>)
            \o (IF DOMAIN color_palette # {}
                THEN << "Color Palette: " \o Get(color_palette, "primary", "")
                        \o " primary" >> ELSE << >>)
            \o (IF Len(keywords) > 0
                THEN << "Tags: " \o Join(keywords, ", ") >> ELSE << >>)
            \o (IF description # "" THEN << description >> ELSE << >>)
            \o << semantic_summary >>
    IN  Join(parts, " ")

\* ExistingTemplateProcessor.build_embedding_text
BuildEmbeddingTextExisting(template) ==
    LET industry == Get(template, "industry", "general")
        cta_intent == Get(template, "cta_intent", "contact")
        design_style == Get(template, "design_style", "modern")
        summary ==
            "\n        This is a " \o design_style \o " website template for the "
            \o industry \o " industry,\n        optimized for " \o cta_intent
            \o " conversions.\n        "
        parts ==
            << "Industry: " \o industry,
               "CTA Intent: " \o cta_intent,
               "Design Style: " \o design_style >>
            \o (IF Get(template, "pages_count", 0) # 0
                THEN << "Pages: " \o ToString(template["pages_count"]) \o " pages" >>
                ELSE << >>)
            \o (IF Len(Get(template, "features", << >>)) > 0
                THEN << "Features: " \o Join(template["features"], ", ") >> ELSE << >>)
            \o (IF Get(template, "name", "") # ""
                THEN << "Name: " \o template["name"] >> ELSE << >>)
            \o << summary >>
    IN  Join(parts, " ")

(*************************** str.replace, str.title **************************)
LOWER == "abcdefghijklmnopqrstuvwxyz"
UPPER == "ABCDEFGHIJKLMNOPQRSTUVWXYZ"
Char(str, k) == SubSeq(str, k, k)
IsLower(c) == \E k \in 1..Len(LOWER) : Char(LOWER, k) = c
IsUpper(c) == \E k \in 1..Len(UPPER) : Char(UPPER, k) = c
ToUpper(c) ==
    IF IsLower(c) THEN Char(UPPER, CHOOSE k \in 1..Len(LOWER) : Char(LOWER, k) = c) ELSE c
ToLower(c) ==
    IF IsUpper(c) THEN Char(LOWER, CHOOSE k \in 1..Len(UPPER) : Char(UPPER, k) = c) ELSE c

RECURSIVE Replace(_, _, _)
\* str.replace(old, new) for a one-character old
Replace(str, old, new) ==
    IF Len(str) = 0 THEN ""
    ELSE (IF Char(str, 1) = old THEN new ELSE Char(str, 1))
         \o Replace(SubSeq(str, 2, Len(str)), old, new)

RECURSIVE TitleFrom(_, _, _)
TitleFrom(str, k, prevCased) ==
    IF k > Len(str) THEN ""
    ELSE LET c == Char(str, k)
         IN  (IF prevCased THEN ToLower(c) ELSE ToUpper(c))
             \o TitleFrom(str, k + 1, IsLower(c) \/ IsUpper(c))

\* str.title()
Title(str) == TitleFrom(str, 1, FALSE)

(***************************** Template Discovery ***************************)
\* The entry of the tree at base_path / parent / name: a sequence of 0 or 1.
Lookup(parent, name) == SelectSeq(TREE, LAMBDA e : e.parent = parent /\ e.name = name)

\* template_path.exists()
PathExists(parent, name) == Len(Lookup(parent, name)) > 0

\* (template_path / "metadata.json").exists()
MetadataExists(parent, name) ==
    /\ PathExists(parent, name)
    /\ Lookup(parent, name)[1].is_dir
    /\ Lookup(parent, name)[1].file # "absent"

\* EmbeddingGenerator.process_template: the result built from a metadata
\* document that parsed and an embedding call that answered with shape resp.
TemplateResult(parent, name, resp) ==
    LET metadata == Lookup(parent, name)[1].metadata
        embedding_text == BuildEmbeddingText(metadata)
        embedding == GenerateEmbedding(embedding_text, resp)
    IN  [ template_id |-> Get(metadata, "template_id", name),
          name |-> Get(metadata, "name", ""),
          industry |-> Get(metadata, "industry", "other"),
          cta_intent |-> Get(metadata, "cta_intent", "contact"),
          design_style |-> Get(metadata, "design_style", "modern"),
          sections |-> Get(metadata, "sections", << >>),
          keywords |-> Get(metadata, "keywords", << >>),
          color_palette |-> Get(metadata, "color_palette", EmptyDict),
          customizable_fields |-> Get(metadata, "customizable_fields", << >>),
          css_variables |-> Get(metadata, "css_variables", << >>),
          description |-> Get(metadata, "description", ""),
          figma_source |-> Get(metadata, "figma_source", ""),
          s3_path |-> "website-templates/" \o parent \o "/" \o name \o "/",
          preview_url |-> "https://" \o TEMPLATES_BUCKET \o ".s3." \o REGION
                          \o ".amazonaws.com/website-templates/" \o parent
                          \o "/" \o name \o "/preview.png",
          embedding_text |-> Prefix(embedding_text, 500),
          embedding |-> embedding,
          embedding_model |-> EMBEDDING_MODEL_ID,
          embedding_dimension |-> EMBEDDING_DIMENSION,
          status |-> "PUBLISHED",
          created_at |-> Get(metadata, "created_at", UtcNow),
          updated_at |-> UtcNow ]

\* A process_template that marks its result as a draft.
ProcessTemplateDraft(parent, name, resp) ==
    IF ~MetadataExists(parent, name) THEN << >>
    ELSE IF Lookup(parent, name)[1].file = "malformed" \/ resp = "raise" THEN << >>
    ELSE << [TemplateResult(parent, name, resp) EXCEPT !.status = "DRAFT"] >>

\* A process_template whose embedding call answers without a vector instead
\* of raising: the failed template is indexed all the same.
ProcessTemplateSwallowing(parent, name, resp) ==
    IF ~MetadataExists(parent, name) THEN << >>
    ELSE IF Lookup(parent, name)[1].file = "malformed" THEN << >>
    ELSE << TemplateResult(parent, name, IF resp = "raise" THEN "nofield" ELSE resp) >>

\* EmbeddingGenerator.process_template.  resp is "raise" when the embedding
\* call raises, and the shape of the answer otherwise.  Returns << >> for
\* None: no metadata document, or an exception caught and logged.
ProcessTemplate(parent, name, resp) ==
    IF ~MetadataExists(parent, name) THEN << >>
    ELSE IF Lookup(parent, name)[1].file = "malformed" \/ resp = "raise" THEN << >>
    ELSE << TemplateResult(parent, name, resp) >>

\* A walk that does not skip the entries whose name starts with '.'.
WalkedDirsWithHidden ==
    SelectSeq(
        Concat([k \in 1..Len(VALID_INDUSTRIES) |->
                    SelectSeq(TREE, LAMBDA e : e.parent = VALID_INDUSTRIES[k])]),
        LAMBDA e : e.is_dir)

\* The directories process_all_templates hands to process_template: for each
\* industry of VALID_INDUSTRIES in order, the entries of its directory that
\* are directories and do not start with '.'.
WalkedDirs ==
    SelectSeq(
        Concat([k \in 1..Len(VALID_INDUSTRIES) |->
                    SelectSeq(TREE, LAMBDA e : e.parent = VALID_INDUSTRIES[k])]),
        LAMBDA e : e.is_dir /\ Char(e.name, 1) # ".")

\* The answer to the embedding call made for a source, given the sources
\* whose call raises in this run.
Resp(src, fails) == IF src \in fails THEN "raise" ELSE provider

\* EmbeddingGenerator.process_all_templates
ProcessAllTemplates(fails) ==
    Concat([k \in 1..Len(WalkedDirs) |->
              ProcessTemplate(WalkedDirs[k].parent, WalkedDirs[k].name,
                              Resp(<<WalkedDirs[k].parent, WalkedDirs[k].name>>, fails))])

\* ExistingTemplateProcessor.process_recreated_templates: one result per entry
\* of registry['templates'] whose embedding call does not raise.
ProcessRecreatedTemplates(registry, fails) ==
    LET templates == Get(registry, "templates", << >>)
        One(k) ==
          LET template == templates[k]
              embedding_text == BuildEmbeddingTextExisting(template)
          IN IF Resp(<<"recreated", k>>, fails) = "raise" THEN << >>
             ELSE << [ template_id |-> Get(template, "template_id", None),
                       name |-> Get(template, "name", ""),
                       source |-> "recreated",
                       industry |-> Get(template, "industry", "general"),
                       cta_intent |-> Get(template, "cta_intent", "contact"),
                       design_style |-> Get(template, "design_style", "modern"),
                       pages_count |-> Get(template, "pages_count", 0),
                       primary_color |-> Get(template, "primary_color", ""),
                       secondary_color |-> Get(template, "secondary_color", ""),
                       s3_bucket |-> FIGMA_ASSETS_BUCKET,
                       s3_path |-> Get(template, "s3_key", ""),
                       preview_url |-> "https://" \o FIGMA_ASSETS_BUCKET \o ".s3."
                                       \o REGION \o ".amazonaws.com/"
                                       \o Get(template, "s3_key", "") \o "index.html",
                       embedding |-> GenerateEmbedding(embedding_text, provider),
                       embedding_text |-> Prefix(embedding_text, 500),
                       status |-> "PUBLISHED",
                       created_at |-> UtcNow ] >>
    IN Concat([k \in 1..Len(templates) |-> One(k)])

\* ExistingTemplateProcessor.process_migrated_templates: the sites it walks.
\* catalog_ok is whether the get of the migrated-sites catalog succeeded; when
\* it raised, catalog is {"sites": []}.
MigratedSites(registry, catalog_ok) ==
    LET catalog == IF catalog_ok THEN CATALOG ELSE [sites |-> << >>]
    IN  Get(catalog, "sites", Get(registry, "migrated_sites_highlights", << >>))

\* ExistingTemplateProcessor.process_migrated_templates: one result per site
\* with a slug whose embedding call does not raise.
ProcessMigratedTemplates(registry, catalog_ok, fails) ==
    LET sites == MigratedSites(registry, catalog_ok)
        One(k) ==
          LET site == sites[k]
              site_slug == Get(site, "site_slug", Get(site, "slug", ""))
              template_data ==
                [ industry |-> Get(site, "industry", "general"),
                  cta_intent |-> "contact",
                  design_style |-> "wordpress-migrated",
                  pages_count |-> Get(site, "pages", 0),
                  features |-> Get(site, "features", << >>),
                  name |-> Title(Replace(site_slug, "-", " ")) \o " Migrated Site" ]
              embedding_text == BuildEmbeddingTextExisting(template_data)
          IN IF site_slug = "" THEN << >>
             ELSE IF Resp(<<"migrated", k>>, fails) = "raise" THEN << >>
             ELSE << [ template_id |-> "migrated-" \o site_slug,
                       name |-> template_data.name,
                       source |-> "migrated",
                       industry |-> template_data.industry,
                       cta_intent |-> template_data.cta_intent,
                       design_style |-> template_data.design_style,
                       pages_count |-> template_data.pages_count,
                       features |-> template_data.features,
                       s3_bucket |-> MIGRATED_SITES_BUCKET,
                       s3_path |-> site_slug \o "/",
                       preview_url |-> "https://" \o MIGRATED_SITES_BUCKET \o ".s3."
                                       \o REGION \o ".amazonaws.com/" \o site_slug
                                       \o "/index.html",
                       embedding |-> GenerateEmbedding(embedding_text, provider),
                       embedding_text |-> Prefix(embedding_text, 500),
                       status |-> "PUBLISHED",
                       created_at |-> UtcNow ] >>
    IN Concat([k \in 1..Len(sites) |-> One(k)])

(****************************** Vector Store Writer *************************)
\* put_object / put_item: the document under the key is replaced.
Put(store, k, v) == [x \in DOMAIN store \cup {k} |-> IF x = k THEN v ELSE store[x]]

\* A key that changes from one invocation to the next.
VectorKeyPerRun(template_id) ==
    "template-embeddings/" \o PyStr(template_id) \o "-" \o ToString(clock) \o ".json"

\* s3_key = f"template-embeddings/{template_id}.json"
VectorKey(template_id) == "template-embeddings/" \o PyStr(template_id) \o ".json"

\* A vector document that stores the whole result but for the vector as its
\* metadata.
VectorDocFull(embedding_data) ==
    [ id |-> embedding_data.template_id,
      vector |-> embedding_data.embedding,
      metadata |-> [f \in DOMAIN embedding_data \ {"embedding"} |-> embedding_data[f]] ]

\* EmbeddingGenerator.save_to_s3_vectors: vector_doc
VectorDoc(embedding_data) ==
    [ id |-> embedding_data.template_id,
      vector |-> embedding_data.embedding,
      metadata |->
        [ template_id |-> embedding_data.template_id,
          name |-> embedding_data.name,
          industry |-> embedding_data.industry,
          cta_intent |-> embedding_data.cta_intent,
          design_style |-> embedding_data.design_style,
          sections |-> embedding_data.sections,
          keywords |-> embedding_data.keywords,
          status |-> embedding_data.status,
          s3_path |-> embedding_data.s3_path,
          preview_url |-> embedding_data.preview_url ] ]

\* ExistingTemplateProcessor.save_to_s3_vectors: vector_doc
VectorDocExisting(embedding_data) ==
    [ id |-> embedding_data.template_id,
      vector |-> embedding_data.embedding,
      metadata |->
        [ template_id |-> embedding_data.template_id,
          name |-> embedding_data.name,
          source |-> Get(embedding_data, "source", "unknown"),
          industry |-> embedding_data.industry,
          cta_intent |-> embedding_data.cta_intent,
          design_style |-> embedding_data.design_style,
          pages_count |-> Get(embedding_data, "pages_count", 0),
          s3_bucket |-> Get(embedding_data, "s3_bucket", ""),
          s3_path |-> Get(embedding_data, "s3_path", ""),
          preview_url |-> Get(embedding_data, "preview_url", ""),
          status |-> embedding_data.status ] ]

\* EmbeddingGenerator.save_to_s3_vectors: the index it writes, built from
\* this run's embeddings alone.
NewIndex(embs) ==
    [ vectors_count |-> Len(embs),
      model |-> EMBEDDING_MODEL_ID,
      dimension |-> EMBEDDING_DIMENSION,
      generated_at |-> UtcNow,
      templates |-> [k \in 1..Len(embs) |->
                        [ template_id |-> embs[k].template_id,
                          name |-> embs[k].name,
                          industry |-> embs[k].industry ]] ]

\* A merge that leaves the count of the fetched document as it was.
MergeIndexKeepingCount(fetched, new_embeddings) ==
    LET existing_ids ==
            { t.template_id : t \in Range(Get(fetched, "templates", << >>)) }
        added == SelectSeq(new_embeddings, LAMBDA emb : emb.template_id \notin existing_ids)
        entries == [k \in 1..Len(added) |->
                        [ template_id |-> added[k].template_id,
                          name |-> added[k].name,
                          industry |-> added[k].industry,
                          source |-> Get(added[k], "source", "unknown") ]]
        merged == IF Len(added) > 0
                  THEN Set(fetched, "templates", Get(fetched, "templates", << >>) \o entries)
                  ELSE fetched
    IN  Set(Set(Set(Set(merged,
            "vectors_count", Get(fetched, "vectors_count", 0)),
            "model", EMBEDDING_MODEL_ID),
            "dimension", EMBEDDING_DIMENSION),
            "updated_at", UtcNow)

\* ExistingTemplateProcessor._update_vectors_index: the merge of the fetched
\* document with new_embeddings.  existing_ids is computed once, before the loop.
MergeIndex(fetched, new_embeddings) ==
    LET existing_ids ==
            { t.template_id : t \in Range(Get(fetched, "templates", << >>)) }
        added == SelectSeq(new_embeddings, LAMBDA emb : emb.template_id \notin existing_ids)
        entries == [k \in 1..Len(added) |->
                        [ template_id |-> added[k].template_id,
                          name |-> added[k].name,
                          industry |-> added[k].industry,
                          source |-> Get(added[k], "source", "unknown") ]]
        merged == IF Len(added) > 0
                  THEN Set(fetched, "templates", Get(fetched, "templates", << >>) \o entries)
                  ELSE fetched
    IN  Set(Set(Set(Set(merged,
            "vectors_count", Len(Get(merged, "templates", << >>))),
            "model", EMBEDDING_MODEL_ID),
            "dimension", EMBEDDING_DIMENSION),
            "updated_at", UtcNow)

(***************************** Metadata Store Writer ************************)
\* A sort key that changes from one invocation to the next.
SortKeyPerRun(template_id) == "TEMPLATE#" \o PyStr(template_id) \o "#" \o UtcNow

\* "SK": f"TEMPLATE#{template_id}"
SortKey(template_id) == "TEMPLATE#" \o PyStr(template_id)

\* EmbeddingGenerator.save_to_dynamodb: item
Item(embedding_data) ==
    [ PK |-> "TEMPLATE",
      SK |-> SortKey(embedding_data.template_id),
      template_id |-> embedding_data.template_id,
      name |-> embedding_data.name,
      industry |-> embedding_data.industry,
      cta_intent |-> embedding_data.cta_intent,
      design_style |-> embedding_data.design_style,
      sections |-> embedding_data.sections,
      keywords |-> embedding_data.keywords,
      color_palette |-> embedding_data.color_palette,
      customizable_fields |-> embedding_data.customizable_fields,
      css_variables |-> embedding_data.css_variables,
      description |-> embedding_data.description,
      figma_source |-> embedding_data.figma_source,
      s3_path |-> embedding_data.s3_path,
      preview_url |-> embedding_data.preview_url,
      vector_id |-> embedding_data.template_id,
      embedding_model |-> embedding_data.embedding_model,
      status |-> embedding_data.status,
      created_at |-> embedding_data.created_at,
      updated_at |-> embedding_data.updated_at,
      GSI1PK |-> "INDUSTRY#" \o embedding_data.industry,
      GSI1SK |-> "STATUS#" \o embedding_data.status \o "#"
                 \o PyStr(embedding_data.template_id) ]

\* ExistingTemplateProcessor.save_to_dynamodb: item
ItemExisting(embedding_data) ==
    [ PK |-> "TEMPLATE",
      SK |-> SortKey(embedding_data.template_id),
      template_id |-> embedding_data.template_id,
      name |-> embedding_data.name,
      source |-> Get(embedding_data, "source", "unknown"),
      industry |-> embedding_data.industry,
      cta_intent |-> embedding_data.cta_intent,
      design_style |-> embedding_data.design_style,
      pages_count |-> Get(embedding_data, "pages_count", 0),
      features |-> Get(embedding_data, "features", << >>),
      primary_color |-> Get(embedding_data, "primary_color", ""),
      secondary_color |-> Get(embedding_data, "secondary_color", ""),
      s3_bucket |-> Get(embedding_data, "s3_bucket", ""),
      s3_path |-> Get(embedding_data, "s3_path", ""),
      preview_url |-> Get(embedding_data, "preview_url", ""),
      vector_id |-> embedding_data.template_id,
      embedding_model |-> EMBEDDING_MODEL_ID,
      status |-> embedding_data.status,
      created_at |-> embedding_data.created_at,
      updated_at |-> UtcNow,
      GSI1PK |-> "INDUSTRY#" \o embedding_data.industry,
      GSI1SK |-> "STATUS#" \o embedding_data.status \o "#"
                 \o PyStr(embedding_data.template_id) ]

\* The table's primary key of an item.
ItemKey(item) == << item.PK, item.SK >>

(********************************* local sink *******************************)
RECURSIVE PutAll(_, _, _)
\* the files of store after writing docs[k] under names[k], in order
PutAll(store, names, docs) ==
    IF Len(names) = 0 THEN store
    ELSE PutAll(Put(store, Head(names), Head(docs)), Tail(names), Tail(docs))

\* EmbeddingGenerator.save_embeddings_local: one file per result, then index.json
SaveEmbeddingsLocal(dir, embs) ==
    Put(PutAll(dir,
               [k \in 1..Len(embs) |-> PyStr(embs[k].template_id) \o ".json"],
               embs),
        "index.json",
        [ embeddings_count |-> Len(embs),
          model |-> EMBEDDING_MODEL_ID,
          dimension |-> EMBEDDING_DIMENSION,
          generated_at |-> UtcNow,
          templates |-> [k \in 1..Len(embs) |->
                            [ template_id |-> embs[k].template_id,
                              name |-> embs[k].name,
                              industry |-> embs[k].industry ]] ])

(******************************* the invocations ****************************)
NoArgs == [none |-> TRUE]
NoIndex == [templates |-> << >>]
NoRun == [kind |-> "none", args |-> NoArgs, ids |-> << >>, names |-> << >>]
EmptyStore == [x \in {} |-> NoArgs]

\* The template_ids of a list of results, in order.
Ids(embs) == [k \in 1..Len(embs) |-> embs[k].template_id]

\* What identifies a completed invocation: the script, its arguments and the
\* templates it indexed.
Invocation(p) ==
    [kind |-> kind[p], args |-> args[p], ids |-> Ids(embeddings[p]),
     names |-> [k \in 1..Len(embeddings[p]) |-> embeddings[p][k].name]]

\* Config(retries={"max_attempts": 3, "mode": "adaptive"}) of the
\* bedrock-runtime client that generate_embedding calls.
RETRIES == [max_attempts |-> 3, mode |-> "adaptive"]

\* A client that counts max_attempts as retries after the first attempt.
AttemptCountsLegacy(fails) ==
    IF fails = {} THEN {0} ELSE { RETRIES.max_attempts + 1 }

\* The number of attempts the client has made for a call of invoke_model
\* that raised: the provider keeps failing (timeout, throttling) and the
\* call is tried again until max_attempts attempts are used up.  0 when no
\* call of the run raises.
AttemptCounts(fails) ==
    IF fails = {} THEN {0} ELSE { RETRIES.max_attempts }

\* The exception of invoke_model, once per call that raised.
AttemptLog(fails, attempts) ==
    { <<"invoke_model_raised", src[1],
        IF src[1] \in {"recreated", "migrated"} THEN ToString(src[2]) ELSE src[2],
        ToString(attempts)>> : src \in fails }

\* The sets of sources whose embedding call raises in one run.
FailureSets(callable) == { f \in SUBSET callable : Cardinality(f) <= MaxEmbedFailures }

\* The sources for which a directory-backed run reaches the embedding call.
DirCallable(template) ==
    IF template = << >>
    THEN { <<WalkedDirs[k].parent, WalkedDirs[k].name>> :
              k \in { j \in 1..Len(WalkedDirs) : WalkedDirs[j].file = "ok" } }
    ELSE IF MetadataExists(template[1], template[2])
            /\ Lookup(template[1], template[2])[1].file = "ok"
         THEN { template } ELSE {}

\* generate_embeddings.main: the embeddings of the run.
DirEmbeddings(template, fails) ==
    IF template = << >> THEN ProcessAllTemplates(fails)
    ELSE ProcessTemplate(template[1], template[2], Resp(template, fails))

\* What process_template logs for one path.
ProcessLog(parent, name, fails) ==
    IF ~MetadataExists(parent, name) THEN { <<"no_metadata", parent, name>> }
    ELSE IF Lookup(parent, name)[1].file = "malformed" \/ <<parent, name>> \in fails
         THEN { <<"error_processing", parent, name>> }
         ELSE { <<"generated", parent, name>> }

DirLog(template, fails) ==
    IF template = << >>
    THEN UNION { ProcessLog(WalkedDirs[k].parent, WalkedDirs[k].name, fails) :
                    k \in 1..Len(WalkedDirs) }
    ELSE ProcessLog(template[1], template[2], fails)

\* generate_embeddings.main, from the parsing of the arguments to the first
\* save: the template path is checked, the templates are processed, and the
\* run ends there when the path does not exist or nothing was generated.
StartGenerate(p) ==
    /\ pc[p] = "idle"
    /\ nruns < MaxRuns
    /\ \E template \in TemplateArgs \cup { << >> }, local \in BOOLEAN :
         \E fails \in FailureSets(DirCallable(template)) :
          \E attempts \in AttemptCounts(fails) :
           LET notfound == template # << >> /\ ~PathExists(template[1], template[2])
               embs == IF notfound THEN << >> ELSE DirEmbeddings(template, fails)
           IN  /\ kind' = [kind EXCEPT ![p] = "generate_embeddings"]
               /\ args' = [args EXCEPT ![p] = [template |-> template, local |-> local]]
               /\ embeddings' = [embeddings EXCEPT ![p] = embs]
               /\ log' = [log EXCEPT ![p] =
                            IF notfound THEN { <<"template_not_found">>, <<"exit", "1">> }
                            ELSE DirLog(template, fails)
                                 \cup AttemptLog(fails, attempts)
                                 \cup (IF embs = << >>
                                       THEN { <<"no_embeddings">>, <<"exit", "0">> }
                                       ELSE {})]
               /\ pc' = [pc EXCEPT ![p] =
                            IF embs = << >> THEN "exit"
                            ELSE IF local THEN "local" ELSE "s3_vectors"]
    /\ i' = [i EXCEPT ![p] = 1]
    /\ before' = [before EXCEPT ![p] = [s3 |-> s3, ddb |-> ddb]]
    /\ clock' = clock + 1
    /\ nruns' = nruns + 1
    /\ UNCHANGED << provider, s3, ddb, localDir, existing_index, last, nfaults >>

\* An uncaught exception of a store call ends the invocation with a traceback.
Crash(p, call, key) ==
    /\ nfaults < MaxStoreFaults
    /\ nfaults' = nfaults + 1
    /\ pc' = [pc EXCEPT ![p] = "crashed"]
    /\ log' = [log EXCEPT ![p] = @ \cup { <<"traceback", call, key>> }]

\* A --local branch that falls through to the upload of the vector documents.
SaveLocalAndUpload(p) ==
    /\ pc[p] = "local"
    /\ localDir' = SaveEmbeddingsLocal(localDir, embeddings[p])
    /\ s3' = PutAll(s3,
                    [k \in 1..Len(embeddings[p]) |-> VectorKey(embeddings[p][k].template_id)],
                    [k \in 1..Len(embeddings[p]) |-> VectorDoc(embeddings[p][k])])
    /\ pc' = [pc EXCEPT ![p] = "done"]
    /\ log' = [log EXCEPT ![p] = @ \cup { <<"saved_locally", ToString(Len(embeddings[p]))>> }]
    /\ UNCHANGED << clock, provider, ddb, kind, args, embeddings, i,
                    existing_index, before, last, nruns, nfaults >>

\* generate_embeddings.main, --local: save_embeddings_local and the report.
SaveLocal(p) ==
    /\ pc[p] = "local"
    /\ localDir' = SaveEmbeddingsLocal(localDir, embeddings[p])
    /\ pc' = [pc EXCEPT ![p] = "done"]
    /\ log' = [log EXCEPT ![p] = @ \cup { <<"saved_locally", ToString(Len(embeddings[p]))>> }]
    /\ UNCHANGED << clock, provider, s3, ddb, kind, args, embeddings, i,
                    existing_index, before, last, nruns, nfaults >>

\* EmbeddingGenerator.save_to_s3_vectors: one pass of the loop.
GenSaveVector(p) ==
    /\ pc[p] = "s3_vectors"
    /\ kind[p] = "generate_embeddings"
    /\ LET embedding_data == embeddings[p][i[p]]
           s3_key == VectorKey(embedding_data.template_id)
       IN  \/ /\ s3' = Put(s3, s3_key, VectorDoc(embedding_data))
              /\ log' = [log EXCEPT ![p] = @ \cup { <<"saved_vector", s3_key>> }]
              /\ IF i[p] < Len(embeddings[p])
                 THEN i' = [i EXCEPT ![p] = @ + 1] /\ pc' = pc
                 ELSE i' = i /\ pc' = [pc EXCEPT ![p] = "s3_index"]
              /\ UNCHANGED nfaults
           \/ /\ Crash(p, "put_object", s3_key)
              /\ UNCHANGED << s3, i >>
    /\ UNCHANGED << clock, provider, ddb, localDir, kind, args, embeddings,
                    existing_index, before, last, nruns >>

\* EmbeddingGenerator.save_to_s3_vectors: "Save index".
GenSaveIndex(p) ==
    /\ pc[p] = "s3_index"
    /\ \/ /\ s3' = Put(s3, INDEX_KEY, NewIndex(embeddings[p]))
          /\ log' = [log EXCEPT ![p] = @ \cup { <<"saved_index">> }]
          /\ pc' = [pc EXCEPT ![p] = "dynamodb"]
          /\ i' = [i EXCEPT ![p] = 1]
          /\ UNCHANGED nfaults
       \/ /\ Crash(p, "put_object", INDEX_KEY)
          /\ UNCHANGED << s3, i >>
    /\ UNCHANGED << clock, provider, ddb, localDir, kind, args, embeddings,
                    existing_index, before, last, nruns >>

\* EmbeddingGenerator.save_to_dynamodb: one pass of the loop; after the last
\* one main prints its report.
GenSaveItem(p) ==
    /\ pc[p] = "dynamodb"
    /\ kind[p] = "generate_embeddings"
    /\ LET item == Item(embeddings[p][i[p]])
       IN  \/ /\ ddb' = Put(ddb, ItemKey(item), item)
              /\ IF i[p] < Len(embeddings[p])
                 THEN /\ i' = [i EXCEPT ![p] = @ + 1]
                      /\ pc' = pc
                      /\ log' = [log EXCEPT ![p] = @ \cup { <<"saved_metadata", item.SK>> }]
                 ELSE /\ i' = i
                      /\ pc' = [pc EXCEPT ![p] = "done"]
                      /\ log' = [log EXCEPT ![p] = @ \cup
                                   { <<"saved_metadata", item.SK>>,
                                     <<"stored", ToString(Len(embeddings[p]))>> }]
              /\ UNCHANGED nfaults
           \/ /\ Crash(p, "put_item", item.SK)
              /\ UNCHANGED << ddb, i >>
    /\ UNCHANGED << clock, provider, s3, localDir, kind, args, embeddings,
                    existing_index, before, last, nruns >>

\* The sources for which a registry-backed run reaches the embedding call.
RegCallable(recreated_only, migrated_only, catalog_ok) ==
    (IF migrated_only THEN {}
     ELSE { <<"recreated", k>> : k \in 1..Len(Get(REGISTRY, "templates", << >>)) })
    \cup
    (IF recreated_only THEN {}
     ELSE { <<"migrated", k>> :
              k \in { j \in 1..Len(MigratedSites(REGISTRY, catalog_ok)) :
                        Get(MigratedSites(REGISTRY, catalog_ok)[j], "site_slug",
                            Get(MigratedSites(REGISTRY, catalog_ok)[j], "slug", "")) # "" } })

\* process_existing_templates.main: the embeddings of the run.
RegEmbeddings(recreated_only, migrated_only, catalog_ok, fails) ==
    (IF migrated_only THEN << >> ELSE ProcessRecreatedTemplates(REGISTRY, fails))
    \o (IF recreated_only THEN << >>
        ELSE ProcessMigratedTemplates(REGISTRY, catalog_ok, fails))

RegLog(recreated_only, migrated_only, catalog_ok, fails) ==
    { <<IF src \in fails THEN "error_processing" ELSE "generated",
        src[1], ToString(src[2])>> :
          src \in RegCallable(recreated_only, migrated_only, catalog_ok) }
    \cup (IF catalog_ok THEN {} ELSE { <<"no_catalog">> })

\* process_existing_templates.main, from fetch_registry to the first save.
StartExisting(p) ==
    /\ pc[p] = "idle"
    /\ nruns < MaxRuns
    /\ \/ \E recreated_only \in BOOLEAN, migrated_only \in BOOLEAN, catalog_ok \in BOOLEAN :
            /\ recreated_only => catalog_ok
            /\ \E fails \in FailureSets(RegCallable(recreated_only, migrated_only, catalog_ok)) :
                \E attempts \in AttemptCounts(fails) :
                 LET embs == RegEmbeddings(recreated_only, migrated_only, catalog_ok, fails)
                 IN  /\ args' = [args EXCEPT ![p] =
                                   [recreated_only |-> recreated_only,
                                    migrated_only |-> migrated_only]]
                     /\ embeddings' = [embeddings EXCEPT ![p] = embs]
                     /\ log' = [log EXCEPT ![p] =
                                  RegLog(recreated_only, migrated_only, catalog_ok, fails)
                                  \cup AttemptLog(fails, attempts)
                                  \cup (IF embs = << >> THEN { <<"no_embeddings">> } ELSE {})]
                     /\ pc' = [pc EXCEPT ![p] = IF embs = << >> THEN "exit" ELSE "s3_vectors"]
            /\ UNCHANGED nfaults
       \/ \* fetch_registry raises
          /\ Crash(p, "get_object", "templates/template-registry.json")
          /\ args' = [args EXCEPT ![p] = [recreated_only |-> FALSE, migrated_only |-> FALSE]]
          /\ UNCHANGED embeddings
    /\ kind' = [kind EXCEPT ![p] = "process_existing_templates"]
    /\ i' = [i EXCEPT ![p] = 1]
    /\ before' = [before EXCEPT ![p] = [s3 |-> s3, ddb |-> ddb]]
    /\ clock' = clock + 1
    /\ nruns' = nruns + 1
    /\ UNCHANGED << provider, s3, ddb, localDir, existing_index, last >>

\* ExistingTemplateProcessor.save_to_s3_vectors: one pass of the loop.
ExSaveVector(p) ==
    /\ pc[p] = "s3_vectors"
    /\ kind[p] = "process_existing_templates"
    /\ LET embedding_data == embeddings[p][i[p]]
           s3_key == VectorKey(embedding_data.template_id)
       IN  \/ /\ s3' = Put(s3, s3_key, VectorDocExisting(embedding_data))
              /\ log' = [log EXCEPT ![p] = @ \cup { <<"saved_vector", s3_key>> }]
              /\ IF i[p] < Len(embeddings[p])
                 THEN i' = [i EXCEPT ![p] = @ + 1] /\ pc' = pc
                 ELSE i' = i /\ pc' = [pc EXCEPT ![p] = "get_index"]
              /\ UNCHANGED nfaults
           \/ /\ Crash(p, "put_object", s3_key)
              /\ UNCHANGED << s3, i >>
    /\ UNCHANGED << clock, provider, ddb, localDir, kind, args, embeddings,
                    existing_index, before, last, nruns >>

\* ExistingTemplateProcessor._update_vectors_index: "Fetch existing index".
\* Any exception of the get, the absence of the document or another error,
\* leaves {"templates": []}.
ExFetchIndex(p) ==
    /\ pc[p] = "get_index"
    /\ \/ /\ INDEX_KEY \in DOMAIN s3
          /\ existing_index' = [existing_index EXCEPT ![p] = s3[INDEX_KEY]]
          /\ UNCHANGED << nfaults, log >>
       \/ /\ INDEX_KEY \notin DOMAIN s3
          /\ existing_index' = [existing_index EXCEPT ![p] = NoIndex]
          /\ UNCHANGED << nfaults, log >>
       \/ /\ INDEX_KEY \in DOMAIN s3
          /\ nfaults < MaxStoreFaults
          /\ nfaults' = nfaults + 1
          /\ existing_index' = [existing_index EXCEPT ![p] = NoIndex]
          /\ log' = [log EXCEPT ![p] = @ \cup { <<"get_index_raised">> }]
    /\ pc' = [pc EXCEPT ![p] = "put_index"]
    /\ UNCHANGED << clock, provider, s3, ddb, localDir, kind, args, embeddings, i,
                    before, last, nruns >>

\* ExistingTemplateProcessor._update_vectors_index: "Merge templates" and the put.
ExPutIndex(p) ==
    /\ pc[p] = "put_index"
    /\ \/ /\ s3' = Put(s3, INDEX_KEY, MergeIndex(existing_index[p], embeddings[p]))
          /\ log' = [log EXCEPT ![p] = @ \cup { <<"saved_index">> }]
          /\ pc' = [pc EXCEPT ![p] = "dynamodb"]
          /\ i' = [i EXCEPT ![p] = 1]
          /\ UNCHANGED nfaults
       \/ /\ Crash(p, "put_object", INDEX_KEY)
          /\ UNCHANGED << s3, i >>
    /\ UNCHANGED << clock, provider, ddb, localDir, kind, args, embeddings,
                    existing_index, before, last, nruns >>

\* ExistingTemplateProcessor.save_to_dynamodb: one pass of the loop; after the
\* last one main prints its report.
ExSaveItem(p) ==
    /\ pc[p] = "dynamodb"
    /\ kind[p] = "process_existing_templates"
    /\ LET item == ItemExisting(embeddings[p][i[p]])
       IN  \/ /\ ddb' = Put(ddb, ItemKey(item), item)
              /\ IF i[p] < Len(embeddings[p])
                 THEN /\ i' = [i EXCEPT ![p] = @ + 1]
                      /\ pc' = pc
                      /\ log' = [log EXCEPT ![p] = @ \cup { <<"saved_metadata", item.SK>> }]
                 ELSE /\ i' = i
                      /\ pc' = [pc EXCEPT ![p] = "done"]
                      /\ log' = [log EXCEPT ![p] = @ \cup
                                   { <<"saved_metadata", item.SK>>,
                                     <<"stored", ToString(Len(embeddings[p]))>> }]
              /\ UNCHANGED nfaults
           \/ /\ Crash(p, "put_item", item.SK)
              /\ UNCHANGED << ddb, i >>
    /\ UNCHANGED << clock, provider, s3, localDir, kind, args, embeddings,
                    existing_index, before, last, nruns >>

\* The process ends; the next invocation starts from a fresh process.
Finish(p) ==
    /\ pc[p] \in {"done", "exit", "crashed"}
    /\ last' = IF pc[p] = "done" THEN Invocation(p) ELSE NoRun
    /\ pc' = [pc EXCEPT ![p] = "idle"]
    /\ kind' = [kind EXCEPT ![p] = "none"]
    /\ args' = [args EXCEPT ![p] = NoArgs]
    /\ embeddings' = [embeddings EXCEPT ![p] = << >>]
    /\ i' = [i EXCEPT ![p] = 1]
    /\ existing_index' = [existing_index EXCEPT ![p] = NoIndex]
    /\ log' = [log EXCEPT ![p] = {}]
    /\ before' = [before EXCEPT ![p] = [s3 |-> EmptyStore, ddb |-> EmptyStore]]
    /\ UNCHANGED << clock, provider, s3, ddb, localDir, nruns, nfaults >>

(******************************* specifications *****************************)
Init ==
    /\ clock = 1
    /\ provider \in ResponseShapes
    /\ s3 = EmptyStore
    /\ ddb = EmptyStore
    /\ localDir = EmptyStore
    /\ pc = [p \in Procs |-> "idle"]
    /\ kind = [p \in Procs |-> "none"]
    /\ args = [p \in Procs |-> NoArgs]
    /\ embeddings = [p \in Procs |-> << >>]
    /\ i = [p \in Procs |-> 1]
    /\ existing_index = [p \in Procs |-> NoIndex]
    /\ log = [p \in Procs |-> {}]
    /\ before = [p \in Procs |-> [s3 |-> EmptyStore, ddb |-> EmptyStore]]
    /\ last = NoRun
    /\ nruns = 0
    /\ nfaults = 0

Step(p) ==
    \/ StartGenerate(p)
    \/ SaveLocal(p)
    \/ GenSaveVector(p)
    \/ GenSaveIndex(p)
    \/ GenSaveItem(p)
    \/ StartExisting(p)
    \/ ExSaveVector(p)
    \/ ExFetchIndex(p)
    \/ ExPutIndex(p)
    \/ ExSaveItem(p)
    \/ Finish(p)

\* Invocations may run at the same time against the same bucket and table.
Next == \E p \in Procs : Step(p)

\* The interleavings are explored against a provider that answers with the
\* documented response; the shapes of the response do not depend on the
\* scheduling and are explored one invocation after the other (SeqSpec).
ConcInit == Init /\ provider = "full"

Spec == ConcInit /\ [][Next]_vars

\* One invocation after the other.
SeqNext == Step(1)

SeqSpec == Init /\ [][SeqNext]_vars

(***************************** reading the stores ***************************)
\* The template_ids the index document of a bucket lists.
IndexIdsOf(bucket) ==
    IF INDEX_KEY \in DOMAIN bucket
    THEN { t.template_id : t \in Range(Get(bucket[INDEX_KEY], "templates", << >>)) }
    ELSE {}

IndexIds == IndexIdsOf(s3)

\* A document of the bucket that holds a vector.
IsVectorDoc(doc) == "vector" \in DOMAIN doc

\* The template_ids a run indexes.
BatchIds(p) == Range(Ids(embeddings[p]))

\* The run writes to the local sink (--local).
Local(p) == Get(args[p], "local", FALSE)

Registry(p) == kind[p] = "process_existing_templates"
Directory(p) == kind[p] = "generate_embeddings"

\* The run of p wrote the vector document, the metadata record of a result.
SavedVector(p, emb) == <<"saved_vector", VectorKey(emb.template_id)>> \in log[p]
SavedMetadata(p, emb) == <<"saved_metadata", SortKey(emb.template_id)>> \in log[p]

(********************************** claims **********************************)

\* C1: index merge of the registry-backed pipeline.  When a registry-backed
\* run has completed, with no other run in between, the template_ids of the
\* index document are exactly those it listed when the run started plus those
\* of the run's batch; in particular the entries of an earlier batch are
\* never lost.
C1_IndexMergeExact ==
    \A p \in Procs :
        (pc[p] = "done" /\ Registry(p))
            => IndexIds = IndexIdsOf(before[p].s3) \cup BatchIds(p)

\* C2: no entry point drops an index entry of a template that is not in its
\* batch.  Stated for the directory-backed EmbeddingGenerator, full run or
\* --template: every template_id the index listed when the run started and
\* that the run does not index is still listed when the run has completed.
C2_OtherEntriesKept ==
    \A p \in Procs :
        (pc[p] = "done" /\ Directory(p))
            => \A id \in IndexIdsOf(before[p].s3) :
                   id \notin BatchIds(p) => id \in IndexIds

\* C3: two concurrent registry-backed runs that index disjoint template sets
\* compose.  Once both have completed their fetch-merge-write, with no store
\* call having raised, the index lists every template_id of both batches.
C3_ConcurrentRunsCompose ==
    ( /\ \A p \in Procs : pc[p] = "done" /\ Registry(p)
      /\ BatchIds(1) \cap BatchIds(2) = {}
      /\ nfaults = 0 )
        => (BatchIds(1) \cup BatchIds(2)) \subseteq IndexIds

\* A run of p that repeats the invocation completed just before it: the same
\* script with the same arguments indexing the same templates.
IsRerun(p) == pc[p] = "done" /\ last = Invocation(p)

\* A document without its time stamps.
StripTimes(doc) ==
    [f \in DOMAIN doc \ {"created_at", "updated_at", "generated_at"} |-> doc[f]]

C5_OnePerTemplateId ==
    /\ \A k1, k2 \in DOMAIN s3 :
          (IsVectorDoc(s3[k1]) /\ IsVectorDoc(s3[k2]) /\ s3[k1].id = s3[k2].id)
              => k1 = k2
    /\ \A k1, k2 \in DOMAIN ddb :
          ddb[k1].template_id = ddb[k2].template_id => k1 = k2

\* C5 witness: a run has written the vector document and the metadata record
\* of a template_id that had both when the run started.
C5_Witness ==
    \E p \in Procs : \E k \in 1..Len(embeddings[p]) :
        /\ pc[p] = "done"
        /\ SavedVector(p, embeddings[p][k])
        /\ SavedMetadata(p, embeddings[p][k])
        /\ VectorKey(embeddings[p][k].template_id) \in DOMAIN before[p].s3
        /\ <<"TEMPLATE", SortKey(embeddings[p][k].template_id)>> \in DOMAIN before[p].ddb

\* The sources a directory-backed run hands to the text builder: the paths
\* with a metadata document, each with the template_id it would be indexed
\* under and whether its processing failed (the document does not parse, or
\* the run logged the exception of its embedding call).
DirRunSources(p) ==
    LET paths == IF args[p].template = << >>
                 THEN { <<WalkedDirs[k].parent, WalkedDirs[k].name>> : k \in 1..Len(WalkedDirs) }
                 ELSE { args[p].template }
    IN  { [ src |-> path,
            id |-> Get(Lookup(path[1], path[2])[1].metadata, "template_id", path[2]),
            bad |-> \/ Lookup(path[1], path[2])[1].file = "malformed"
                    \/ <<"error_processing", path[1], path[2]>> \in log[p] ] :
          path \in { q \in paths : MetadataExists(q[1], q[2]) } }

\* The same for a registry-backed run: the entries of the registry and the
\* sites with a slug.
RegRunSources(p) ==
    LET templates == Get(REGISTRY, "templates", << >>)
        sites == MigratedSites(REGISTRY, <<"no_catalog">> \notin log[p])
        slug(k) == Get(sites[k], "site_slug", Get(sites[k], "slug", ""))
    IN  (IF args[p].migrated_only THEN {}
         ELSE { [ src |-> <<"recreated", k>>,
                  id |-> Get(templates[k], "template_id", None),
                  bad |-> <<"error_processing", "recreated", ToString(k)>> \in log[p] ] :
                k \in 1..Len(templates) })
        \cup
        (IF args[p].recreated_only THEN {}
         ELSE { [ src |-> <<"migrated", k>>,
                  id |-> "migrated-" \o slug(k),
                  bad |-> <<"error_processing", "migrated", ToString(k)>> \in log[p] ] :
                k \in { j \in 1..Len(sites) : slug(j) # "" } })

\* The run of p got past its configuration checks and processed its sources.
Processed(p) ==
    /\ pc[p] # "idle"
    /\ <<"template_not_found">> \notin log[p]
    /\ <<"traceback", "get_object", "templates/template-registry.json">> \notin log[p]

\* The template_ids of the sources of a run whose processing did not fail.
GoodIds(p) ==
    { x.id : x \in { y \in (IF Directory(p) THEN DirRunSources(p) ELSE RegRunSources(p)) :
                        ~y.bad } }

\* C6: partial-failure isolation in the processing stage.  In every state of
\* a run that has processed its sources, the batch holds exactly the
\* templates whose metadata parsed and whose embedding call did not raise;
\* every vector document and metadata record the run has written is one of
\* those, so nothing is written for a failed template; a completed run has
\* written both for each of them; and the run is aborted only by a store
\* call that raised, never by a failed template.
C6_ProcessingFailureIsolated ==
    \A p \in Procs :
        Processed(p) =>
            /\ BatchIds(p) = GoodIds(p)
            /\ \A ev \in log[p] :
                  /\ ev[1] = "saved_vector" => ev[2] \in { VectorKey(id) : id \in GoodIds(p) }
                  /\ ev[1] = "saved_metadata" => ev[2] \in { SortKey(id) : id \in GoodIds(p) }
            /\ (pc[p] = "done" /\ ~Local(p)) =>
                  \A k \in 1..Len(embeddings[p]) :
                      SavedVector(p, embeddings[p][k]) /\ SavedMetadata(p, embeddings[p][k])
            /\ pc[p] = "crashed" => \E ev \in log[p] : ev[1] = "traceback"

\* C6 witness: a full directory-backed run over a tree with a malformed
\* metadata document and a template whose embedding call raised has
\* completed and stored the two other templates.
C6_Witness ==
    \E p \in Procs :
        /\ pc[p] = "done"
        /\ Directory(p) /\ ~Local(p)
        /\ args[p].template = << >>
        /\ \E x \in DirRunSources(p) :
              Lookup(x.src[1], x.src[2])[1].file = "malformed"
        /\ \E x \in DirRunSources(p) :
              x.bad /\ Lookup(x.src[1], x.src[2])[1].file = "ok"
        /\ Cardinality(BatchIds(p)) = 2
        /\ \A k \in 1..Len(embeddings[p]) :
              /\ VectorKey(embeddings[p][k].template_id) \in DOMAIN s3
              /\ <<"TEMPLATE", SortKey(embeddings[p][k].template_id)>> \in DOMAIN ddb

\* C7: write-failure isolation.  Whenever the vector-store write or the
\* metadata-store write of a template of the batch has raised, the run is
\* not aborted, and once it has completed every other template of the batch
\* has both its vector document and its metadata record written.
C7_WriteFailureIsolated ==
    \A p \in Procs :
        \A k \in 1..Len(embeddings[p]) :
            LET b == embeddings[p][k].template_id
            IN  ( \/ <<"traceback", "put_object", VectorKey(b)>> \in log[p]
                  \/ <<"traceback", "put_item", SortKey(b)>> \in log[p] ) =>
                    /\ pc[p] # "crashed"
                    /\ pc[p] = "done" =>
                          \A j \in 1..Len(embeddings[p]) :
                              j # k => /\ SavedVector(p, embeddings[p][j])
                                       /\ SavedMetadata(p, embeddings[p][j])

\* C8: write ordering.  Within a run a metadata record is logged as written
\* only after the vector document of the same template was, and, the stores
\* having started empty, every template_id with a metadata record also has
\* a vector document in the vector store.
C8_MetadataImpliesVector ==
    /\ \A p \in Procs :
          \A k \in 1..Len(embeddings[p]) :
              SavedMetadata(p, embeddings[p][k]) => SavedVector(p, embeddings[p][k])
    /\ \A k \in DOMAIN ddb :
          \E v \in DOMAIN s3 :
              IsVectorDoc(s3[v]) /\ s3[v].id = ddb[k].template_id

\* C9: dimension invariant.  Every vector document in the vector store has
\* a vector of EMBEDDING_DIMENSION numbers, whatever the embedding provider
\* returned.
C9_StoredDimension ==
    \A k \in DOMAIN s3 :
        IsVectorDoc(s3[k]) => s3[k].vector.dim = EMBEDDING_DIMENSION

\* C10: closed-enum validation.  The industry of a metadata document that is
\* in neither list of valid industries is never found in a vector document,
\* in an entry of the index document or in a metadata record.
C10_InvalidIndustryRejected ==
    \A n \in 1..Len(TREE) :
        ( /\ TREE[n].file = "ok"
          /\ "industry" \in DOMAIN TREE[n].metadata
          /\ TREE[n].metadata.industry \notin (Range(VALID_INDUSTRIES) \cup VALIDATOR_INDUSTRIES) ) =>
            /\ \A k \in DOMAIN s3 :
                  IsVectorDoc(s3[k]) => s3[k].metadata.industry # TREE[n].metadata.industry
            /\ \A k \in DOMAIN s3 :
                  \A t \in Range(Get(s3[k], "templates", << >>)) :
                      t.industry # TREE[n].metadata.industry
            /\ \A k \in DOMAIN ddb : ddb[k].industry # TREE[n].metadata.industry

\* C11: required-field validation.  No vector document, index entry or
\* metadata record is ever stored under a missing (null) template_id.
C11_NoNullTemplateId ==
    /\ VectorKey(None) \notin DOMAIN s3
    /\ None \notin IndexIds
    /\ \A k \in DOMAIN s3 : IsVectorDoc(s3[k]) => s3[k].id # None
    /\ \A k \in DOMAIN ddb : ddb[k].template_id # None

\* C12: every metadata record in the metadata store has a status field, its
\* value is the one status the pipelines produce, 'PUBLISHED', and its
\* secondary sort key GSI1SK is STATUS#{status}#{template_id} for the status
\* and the template_id of that same record.
C12_StatusPublished ==
    \A k \in DOMAIN ddb :
        /\ "status" \in DOMAIN ddb[k]
        /\ ddb[k].status = "PUBLISHED"
        /\ "GSI1SK" \in DOMAIN ddb[k]
        /\ ddb[k].GSI1SK = "STATUS#" \o ddb[k].status \o "#" \o PyStr(ddb[k].template_id)

\* C12 witness: the metadata store holds a record written by the
\* directory-backed pipeline and one written by the registry-backed one.
C12_Witness ==
    /\ \E k \in DOMAIN ddb : "source" \in DOMAIN ddb[k]
    /\ \E k \in DOMAIN ddb : "source" \notin DOMAIN ddb[k]

\* The entries of the index document in a bucket that carry a template_id.
IndexEntriesOf(bucket, template_id) ==
    IF INDEX_KEY \in DOMAIN bucket
    THEN LET templates == Get(bucket[INDEX_KEY], "templates", << >>)
         IN  { k \in 1..Len(templates) : templates[k].template_id = template_id }
    ELSE {}

\* C14: same-ID update of the index.  When a registry-backed run has
\* completed and its batch held a template_id that the index listed before
\* the run, the index has exactly one entry for that template_id and the
\* entry carries the name, industry and source of the batch record.
C14_SameIdReplaced ==
    \A p \in Procs :
        (pc[p] = "done" /\ Registry(p)) =>
            \A n \in 1..Len(embeddings[p]) :
                LET emb == embeddings[p][n]
                IN  emb.template_id \in IndexIdsOf(before[p].s3) =>
                      /\ Cardinality(IndexEntriesOf(s3, emb.template_id)) = 1
                      /\ \A k \in IndexEntriesOf(s3, emb.template_id) :
                            LET entry == s3[INDEX_KEY].templates[k]
                            IN  /\ entry.name = emb.name
                                /\ entry.industry = emb.industry
                                /\ Get(entry, "source", None) = emb.source

\* The template_ids that have a vector document in the vector store.
VectorIds == { s3[k].id : k \in { j \in DOMAIN s3 : IsVectorDoc(s3[j]) } }

\* C15: index/store consistency.  Whenever no store call has raised and no
\* run is in progress, the template_ids listed in the index document are
\* exactly the template_ids that have a vector document.
C15_IndexMatchesStore ==
    ( /\ nfaults = 0
      /\ \A p \in Procs : pc[p] \in {"idle", "done", "exit"} ) =>
        IndexIds = VectorIds

\* The fields of the summary metadata of a vector document, per pipeline.
SummaryFields ==
    { {"template_id", "name", "industry", "cta_intent", "design_style", "sections",
       "keywords", "status", "s3_path", "preview_url"},
      {"template_id", "name", "source", "industry", "cta_intent", "design_style",
       "pages_count", "s3_bucket", "s3_path", "preview_url", "status"} }

\* The description texts of the source records.
Descriptions ==
    { TREE[n].metadata.description :
        n \in { j \in 1..Len(TREE) : "description" \in DOMAIN TREE[j].metadata } }

\* C16: the summary metadata of every vector document in the vector store is
\* one of the two fixed field sets, which hold neither the description nor
\* the embedding text, and none of its text fields has a description as its
\* value; the index document has no description either.
C16_SummaryExcludesDescription ==
    \A k \in DOMAIN s3 :
        /\ IsVectorDoc(s3[k]) =>
              /\ DOMAIN s3[k].metadata \in SummaryFields
              /\ "description" \notin DOMAIN s3[k].metadata
              /\ "embedding_text" \notin DOMAIN s3[k].metadata
              /\ \A f \in DOMAIN s3[k].metadata \cap
                          {"name", "industry", "cta_intent", "design_style", "status",
                           "s3_path", "preview_url", "source", "s3_bucket"} :
                    s3[k].metadata[f] \notin Descriptions
        /\ "description" \notin DOMAIN s3[k]
        /\ \A t \in Range(Get(s3[k], "templates", << >>)) :
              "description" \notin DOMAIN t

\* C16 witness: a template with a description has its vector document in
\* the vector store and its description in the metadata store.
C16_Witness ==
    \E k \in DOMAIN s3, d \in DOMAIN ddb :
        /\ IsVectorDoc(s3[k])
        /\ ddb[d].template_id = s3[k].id
        /\ "description" \in DOMAIN ddb[d]
        /\ ddb[d].description \in Descriptions

\* The calls of invoke_model that raised in the run of p.
RaisedCalls(p) == { ev \in log[p] : ev[1] = "invoke_model_raised" }

\* The template_id a run would index a source of its log under.
SourceIds(p, kindOrParent, name) ==
    { x.id : x \in { y \in (IF Directory(p) THEN DirRunSources(p) ELSE RegRunSources(p)) :
                        /\ y.src[1] = kindOrParent
                        /\ (IF Directory(p) THEN y.src[2] ELSE ToString(y.src[2])) = name } }

\* The template ids of the other sources of the run.
OtherSourceIds(p, kindOrParent, name) ==
    { x.id : x \in { y \in (IF Directory(p) THEN DirRunSources(p) ELSE RegRunSources(p)) :
                        \/ y.src[1] # kindOrParent
                        \/ (IF Directory(p) THEN y.src[2] ELSE ToString(y.src[2])) # name } }

Contains(str, sub) ==
    \E n \in 1..(Len(str) - Len(sub) + 1) : SubSeq(str, n, n + Len(sub) - 1) = sub

\* C18: for a record with industry finance, cta_intent contact, design_style
\* modern and sections hero, about, contact, the text build_embedding_text
\* returns contains "Industry: finance" and, as one contiguous substring,
\* the sentence "This is a modern template for the finance industry,
\* optimized for contact conversions with sections including hero, about,
\* contact."; so does the text of every result a directory-backed run has
\* generated from such a record.
C18_SummarySentence ==
    LET record == [industry |-> "finance", cta_intent |-> "contact",
                   design_style |-> "modern",
                   sections |-> <<"hero", "about", "contact">>]
        sentence == "This is a modern template for the finance industry, "
                    \o "optimized for contact conversions with sections including "
                    \o "hero, about, contact."
    IN  \A p \in Procs :
            \A k \in 1..Len(embeddings[p]) :
                ( /\ Directory(p)
                  /\ embeddings[p][k].industry = record.industry
                  /\ embeddings[p][k].cta_intent = record.cta_intent
                  /\ embeddings[p][k].design_style = record.design_style
                  /\ embeddings[p][k].sections = record.sections ) =>
                    /\ Contains(BuildEmbeddingText(record), "Industry: finance")
                    /\ Contains(BuildEmbeddingText(record), sentence)
                    /\ Contains(embeddings[p][k].embedding_text, "Industry: finance")
                    /\ Contains(embeddings[p][k].embedding_text, sentence)

\* C19: no rollback, and an explicit report.  When the metadata write of a
\* template of the batch has raised after its vector document was written,
\* the vector document is still in the vector store, the index still lists
\* the template, and the log of the run has an entry that reports the
\* vector-without-metadata inconsistency for that template_id.
C19_InconsistencyReported ==
    \A p \in Procs :
        \A k \in 1..Len(embeddings[p]) :
            LET b == embeddings[p][k].template_id
            IN  ( /\ <<"traceback", "put_item", SortKey(b)>> \in log[p]
                  /\ SavedVector(p, embeddings[p][k]) ) =>
                    /\ VectorKey(b) \in DOMAIN s3
                    /\ b \in IndexIds
                    /\ \E ev \in log[p] :
                          /\ ev[1] \in {"inconsistency", "vector_without_metadata"}
                          /\ ev[2] = PyStr(b)

\* The run of p was stopped by a configuration error: the path given with
\* --template does not exist, or the registry could not be fetched.
ConfigurationError(p) ==
    \/ <<"template_not_found">> \in log[p]
    \/ <<"traceback", "get_object", "templates/template-registry.json">> \in log[p]

\* C20: only configuration errors abort a run, and before any template is
\* processed.  A run that ended with a traceback or with exit status 1 was
\* stopped by a configuration error, made no embedding call and left the
\* vector store, the index document and the metadata store as they were.
C20_OnlyConfigurationErrorsAbort ==
    \A p \in Procs :
        (pc[p] = "crashed" \/ <<"exit", "1">> \in log[p]) =>
            /\ ConfigurationError(p)
            /\ embeddings[p] = << >>
            /\ \A ev \in log[p] :
                  ev[1] \notin {"generated", "error_processing", "invoke_model_raised"}
            /\ s3 = before[p].s3
            /\ ddb = before[p].ddb

\* The text build_embedding_text returns for the source of a result of the
\* run of p: the metadata document of its directory, or its registry entry
\* for a result of the recreated templates.  Empty for the results of
\* migrated sites.
BuiltTexts(p, result) ==
    IF Directory(p)
    THEN { BuildEmbeddingText(Lookup(x.src[1], x.src[2])[1].metadata) :
              x \in { y \in DirRunSources(p) : y.id = result.template_id } }
    ELSE { BuildEmbeddingTextExisting(Get(REGISTRY, "templates", << >>)[x.src[2]]) :
              x \in { y \in RegRunSources(p) :
                        /\ y.id = result.template_id
                        /\ y.src[1] = "recreated"
                        /\ result.source = "recreated" } }

\* C21: input truncation.  The text a run submitted to the embedding
\* provider for a result is the text built from its source when that has at
\* most 32768 characters and its first 32768 characters otherwise, and no
\* vector in the vector store was computed from a longer text.
C21_SubmittedTextTruncated ==
    /\ \A p \in Procs :
          \A k \in 1..Len(embeddings[p]) :
              embeddings[p][k].embedding.dim > 0 =>
                  \A full \in BuiltTexts(p, embeddings[p][k]) :
                      /\ embeddings[p][k].embedding.of.len <= 32768
                      /\ Len(full) <= 32768 =>
                            embeddings[p][k].embedding.of = TextOf(full)
                      /\ Len(full) > 32768 =>
                            embeddings[p][k].embedding.of = TextOf(SubSeq(full, 1, 32768))
    /\ \A k \in DOMAIN s3 :
          IsVectorDoc(s3[k]) => s3[k].vector.of.len <= 32768

\* C21 witness: a completed directory-backed run has stored a vector
\* computed from the first 32768 characters of a longer text.
C21_Witness ==
    \E p \in Procs :
        /\ pc[p] = "done" /\ Directory(p) /\ ~Local(p)
        /\ \E k \in 1..Len(embeddings[p]) :
              /\ embeddings[p][k].embedding.dim > 0
              /\ \E full \in BuiltTexts(p, embeddings[p][k]) :
                    /\ Len(full) > 32768
                    /\ embeddings[p][k].embedding.of.len = 32768
              /\ VectorKey(embeddings[p][k].template_id) \in DOMAIN s3
              /\ s3[VectorKey(embeddings[p][k].template_id)].vector =
                    embeddings[p][k].embedding

\* The entries of the tree that are directories under a directory named
\* after an industry of the pipeline and whose name does not start with '.'.
Discoverable ==
    { n \in 1..Len(TREE) :
        /\ TREE[n].parent \in Range(VALID_INDUSTRIES)
        /\ TREE[n].is_dir
        /\ Char(TREE[n].name, 1) # "." }

\* The template_id of the metadata document of an entry of the tree.
TreeId(n) == Get(TREE[n].metadata, "template_id", TREE[n].name)

\* p is a full directory-backed run that has processed the tree.
FullRun(p) == Directory(p) /\ Processed(p) /\ args[p].template = << >>

\* C22 as stated: a full run yields a record for exactly the discoverable
\* directories that contain a metadata document.
C22_RecordForEveryMetadataDocument ==
    \A p \in Procs :
        FullRun(p) =>
            BatchIds(p) = { TreeId(n) : n \in { j \in Discoverable : TREE[j].file # "absent" } }

\* C22 amended: in a full run every discoverable directory with a metadata
\* document is logged either as generated or as failed, never both, and
\* the records are exactly those logged as generated; the documents that
\* do not parse are among the failed; a discoverable directory without the
\* document is logged as skipped and the directories after it are
\* processed all the same; nothing else in the tree is looked at.
C22_DiscoveryAndSkip ==
    \A p \in Procs :
        FullRun(p) =>
            /\ \A n \in Discoverable :
                  LET gen == <<"generated", TREE[n].parent, TREE[n].name>> \in log[p]
                      err == <<"error_processing", TREE[n].parent, TREE[n].name>> \in log[p]
                      skip == <<"no_metadata", TREE[n].parent, TREE[n].name>> \in log[p]
                  IN  /\ TREE[n].file = "absent" => (skip /\ ~gen /\ ~err)
                      /\ TREE[n].file # "absent" => (~skip /\ (gen # err))
                      /\ TREE[n].file = "malformed" => err
            /\ BatchIds(p) =
                  { TreeId(n) : n \in { j \in Discoverable :
                        <<"generated", TREE[j].parent, TREE[j].name>> \in log[p] } }
            /\ \A n \in (1..Len(TREE)) \ Discoverable :
                  \A ev \in log[p] :
                      ev[1] \in {"generated", "error_processing", "no_metadata"} =>
                          <<ev[2], ev[3]>> # <<TREE[n].parent, TREE[n].name>>

\* C22 witness: a full run has skipped a directory without a metadata
\* document, has a record for a directory that comes after it in the walk
\* and has completed.
C22_Witness ==
    \E p \in Procs :
        /\ FullRun(p) /\ pc[p] = "done"
        /\ \E n \in Discoverable, m \in Discoverable :
              /\ TREE[n].parent = TREE[m].parent /\ n < m
              /\ TREE[n].file = "absent"
              /\ <<"no_metadata", TREE[n].parent, TREE[n].name>> \in log[p]
              /\ TreeId(m) \in BatchIds(p)

\* C23: local sink.  In every state of a directory-backed run started with
\* --local the vector store, with the index document in it, and the
\* metadata store are as they were when the run started; once the run has
\* completed, the index of the output directory lists the template_ids of
\* the batch in order and the file of every result holds that result (the
\* file of a template_id 'index' holds the index, written last).
C23_LocalRunLeavesRemoteAlone ==
    \A p \in Procs :
        (Directory(p) /\ Local(p)) =>
            /\ s3 = before[p].s3
            /\ ddb = before[p].ddb
            /\ \A ev \in log[p] : ev[1] \notin {"saved_vector", "saved_index", "saved_metadata"}
            /\ pc[p] = "done" =>
                  /\ "index.json" \in DOMAIN localDir
                  /\ Ids(embeddings[p]) =
                        [k \in 1..Len(embeddings[p]) |->
                            localDir["index.json"].templates[k].template_id]
                  /\ \A k \in 1..Len(embeddings[p]) :
                        LET file == PyStr(embeddings[p][k].template_id) \o ".json"
                        IN  /\ file \in DOMAIN localDir
                            /\ file # "index.json" => localDir[file] = embeddings[p][k]

\* C23 witness: a --local run over the whole tree has completed while the
\* remote stores held the documents of an earlier run.
C23_Witness ==
    \E p \in Procs :
        /\ pc[p] = "done" /\ Directory(p) /\ Local(p)
        /\ Len(embeddings[p]) >= 2
        /\ DOMAIN s3 # {} /\ DOMAIN ddb # {}
        /\ "a.json" \in DOMAIN localDir

\* C24: a failed read of the index loses no entry.  When the get of the
\* index document raised in a registry-backed run although the document
\* was there, the index the run has written back still lists every
\* template_id the stored index listed.
C24_FailedReadKeepsEntries ==
    \A p \in Procs :
        ( /\ Registry(p)
          /\ <<"get_index_raised">> \in log[p]
          /\ <<"saved_index">> \in log[p] ) =>
            IndexIdsOf(before[p].s3) \subseteq IndexIds

\* C25: unique index entries.  The template ids of the entries of the index
\* document are pairwise distinct, whatever batches were merged into it,
\* also a batch in which two records share a template id that the index did
\* not list.
C25_IndexIdsPairwiseDistinct ==
    INDEX_KEY \in DOMAIN s3 =>
        LET templates == Get(s3[INDEX_KEY], "templates", << >>)
        IN  \A a, b \in 1..Len(templates) :
                templates[a].template_id = templates[b].template_id => a = b

\* C26: vector keys and the index key.  No template id of a batch has the
\* key of the index document as the key of its vector document, so once a
\* run has written its vector documents and then the index, the vector
\* document of every template of the batch is still stored under its key.
C26_VectorKeyApartFromIndexKey ==
    \A p \in Procs :
        (pc[p] \in {"dynamodb", "done"} /\ ~Local(p)) =>
            \A k \in 1..Len(embeddings[p]) :
                /\ VectorKey(embeddings[p][k].template_id) # INDEX_KEY
                /\ VectorKey(embeddings[p][k].template_id) \in DOMAIN s3
                /\ IsVectorDoc(s3[VectorKey(embeddings[p][k].template_id)])

\* The text embedded for a record names the industry: it starts with the
\* 'Industry:' part of build_embedding_text for that industry.
NamesIndustry(embedding_text, industry) ==
    Prefix(embedding_text, Len("Industry: " \o industry \o " ")) =
        "Industry: " \o industry \o " "

\* C27: one industry per record.  After a directory-backed run has stored
\* its batch, the industry that the embedded text of a record names is the
\* industry of the record's index entry, of its vector document and of its
\* metadata record, whose secondary key is built from the same industry;
\* also for a record whose metadata document has no industry field.
C27_EmbeddedIndustryIsStoredIndustry ==
    \A p \in Procs :
        (Directory(p) /\ ~Local(p) /\ pc[p] = "done") =>
            \A k \in 1..Len(embeddings[p]) :
                LET e == embeddings[p][k]
                    key == VectorKey(e.template_id)
                IN  /\ \A t \in Range(Get(s3[INDEX_KEY], "templates", << >>)) :
                          t.template_id = e.template_id =>
                              NamesIndustry(e.embedding_text, t.industry)
                    /\ (key \in DOMAIN s3 /\ IsVectorDoc(s3[key])) =>
                          NamesIndustry(e.embedding_text, s3[key].metadata.industry)
                    /\ \A d \in DOMAIN ddb :
                          ddb[d].template_id = e.template_id =>
                              /\ NamesIndustry(e.embedding_text, ddb[d].industry)
                              /\ ddb[d].GSI1PK = "INDUSTRY#" \o ddb[d].industry

\* validate_template.find_all_templates: the entries of the tree that are
\* directories under a directory named after an industry of the validator
\* and whose name does not start with '.'.
FindAllTemplates ==
    { n \in 1..Len(TREE) :
        /\ TREE[n].parent \in VALIDATOR_INDUSTRIES
        /\ TREE[n].is_dir
        /\ Char(TREE[n].name, 1) # "." }

\* The run of p has handed the directory to process_template.
Visited(p, parent, name) ==
    \E tag \in {"generated", "error_processing", "no_metadata"} :
        <<tag, parent, name>> \in log[p]

\* C28: discovery agrees with the validator.  A full directory-backed run
\* hands to process_template every directory that find_all_templates of the
\* validator enumerates and that contains a metadata document.
C28_ValidatorTemplatesVisited ==
    \A p \in Procs :
        FullRun(p) =>
            \A n \in FindAllTemplates :
                TREE[n].file # "absent" => Visited(p, TREE[n].parent, TREE[n].name)

\* C29: the count of the index.  Every step that writes the index document,
\* by the overwrite of the directory-backed pipeline or by the merge of the
\* registry-backed one, leaves a document whose vectors_count is the number
\* of entries of its templates list.
C29_CountIsNumberOfEntries ==
    [][ \A p \in Procs :
          (pc[p] \in {"s3_index", "put_index"} /\ pc'[p] = "dynamodb") =>
              /\ INDEX_KEY \in DOMAIN s3'
              /\ "vectors_count" \in DOMAIN s3'[INDEX_KEY]
              /\ s3'[INDEX_KEY].vectors_count =
                    Len(Get(s3'[INDEX_KEY], "templates", << >>)) ]_vars

\* C29 witness: a registry-backed run has just merged its batch into an
\* index that a directory-backed run wrote: the index lists the entries it
\* had and new ones, and its count is the number of all of them.
C29_Witness ==
    \E p \in Procs :
        /\ Registry(p) /\ pc[p] = "dynamodb" /\ i[p] = 1
        /\ INDEX_KEY \in DOMAIN before[p].s3
        /\ "generated_at" \in DOMAIN before[p].s3[INDEX_KEY]
        /\ Len(s3[INDEX_KEY].templates) > Len(before[p].s3[INDEX_KEY].templates)
        /\ Len(before[p].s3[INDEX_KEY].templates) > 0
        /\ s3[INDEX_KEY].vectors_count = Len(s3[INDEX_KEY].templates)
        /\ s3[INDEX_KEY].vectors_count > before[p].s3[INDEX_KEY].vectors_count

\* C30: sites from the catalog or from the highlights.  A registry-backed
\* run that processes the migrated sites and could not fetch the catalog has
\* in its batch, for every highlight of the registry with a non-empty slug
\* whose embedding call did not raise, the record migrated-{slug}.
C30_HighlightsUsedWithoutCatalog ==
    \A p \in Procs :
        ( /\ Registry(p)
          /\ <<"no_catalog">> \in log[p]
          /\ pc[p] # "crashed"
          /\ ~args[p].recreated_only ) =>
            \A k \in 1..Len(Get(REGISTRY, "migrated_sites_highlights", << >>)) :
                LET site == Get(REGISTRY, "migrated_sites_highlights", << >>)[k]
                    slug == Get(site, "site_slug", Get(site, "slug", ""))
                IN  (slug # "" /\ <<"error_processing", "migrated", ToString(k)>> \notin log[p]) =>
                        \E j \in 1..Len(embeddings[p]) :
                            embeddings[p][j].template_id = "migrated-" \o slug

====
